---- MODULE Spec2Model ----
(***************************************************************************)
(* State-machine model of the two Stingray reconciliation modules          *)
(*   library/network/stingray/stingray_pool.py  (StingrayPool, main)       *)
(*   library/network/stingray/stingray_node.py  (StingrayNode, main)       *)
(* together with the traffic manager's REST resource they talk to.         *)
(*                                                                         *)
(* A pool property tree is a function from key paths to node kinds:        *)
(* "dict" for a nested dictionary, "null" for JSON null / Python None,     *)
(* and the scalar leaves "v1", "v2".  The root dictionary is implicit.     *)
(* The node table (properties.basic.nodes_table) is kept beside the tree   *)
(* as a sequence of node records.                                          *)
(***************************************************************************)
EXTENDS Integers, Sequences, FiniteSets, TLC

VARIABLES remote, inv, runs

vars == <<remote, inv, runs>>

-----------------------------------------------------------------------------
(* Bounds of the model *)

\* number of invocations one behaviour runs one after the other
MaxRuns == 2

-----------------------------------------------------------------------------
(* Property trees *)

Keys == {"a", "b", "c"}

\* iteration order of a dictionary's keys (deterministic per input)
KeyOrder == <<"a", "b", "c">>

Paths == {<<"a">>, <<"a", "b">>, <<"a", "b", "c">>, <<"b">>}

Scalars == {"v1", "v2"}

Kinds == {"dict", "null"} \cup Scalars

Parent(p) == SubSeq(p, 1, Len(p) - 1)

WellFormed(t) ==
    \A p \in DOMAIN t :
        /\ Len(p) > 1 => (Parent(p) \in DOMAIN t /\ t[Parent(p)] = "dict")
        /\ t[p] = "dict" => Len(p) < 3

Trees == UNION {{t \in [D -> Kinds] : WellFormed(t)} : D \in SUBSET Paths}

EmptyTree == [p \in {} |-> "null"]

\* dict.get(k, None): a missing key reads as None
Get(t, p) == IF p \in DOMAIN t THEN t[p] ELSE "null"

Children(t, p) == {k \in Keys : Append(p, k) \in DOMAIN t}

\* the dotted field path "a.b.c" is kept as the sequence <<"a","b","c">>
Dotted(parent, k) == parent \o <<k>>

-----------------------------------------------------------------------------
(* StingrayPool.__init__, line 73: drop the top-level keys mapped to None *)

NonEmptyProps(properties) ==
    LET dropped == {p \in DOMAIN properties :
                        /\ Len(p) = 1
                        /\ properties[p] = "null"}
    IN  [p \in DOMAIN properties \ dropped |-> properties[p]]

(* StingrayPool._pool_changes: the recursive diff.  path is the place of    *)
(* new_pool / current_pool in their trees, parent the 'parent' argument.    *)

RECURSIVE PoolChangesFrom(_, _, _, _, _)
PoolChangesFrom(new_pool, current_pool, path, parent, i) ==
    IF i > Len(KeyOrder) THEN <<>>
    ELSE
      LET k    == KeyOrder[i]
          q    == Append(path, k)
          rest == PoolChangesFrom(new_pool, current_pool, path, parent, i + 1)
      IN  IF q \notin DOMAIN new_pool THEN rest
          ELSE IF Get(current_pool, q) = "null" THEN rest
          ELSE IF new_pool[q] = "dict"
               THEN PoolChangesFrom(new_pool, current_pool, q, <<k>>, 1) \o rest
          ELSE IF new_pool[q] # current_pool[q]
               THEN <<[key    |-> IF parent = <<>> THEN <<k>> ELSE Dotted(parent, k),
                       before |-> current_pool[q],
                       after  |-> new_pool[q]]>> \o rest
          ELSE rest

PoolChanges(new_pool, current_pool) ==
    PoolChangesFrom(new_pool, current_pool, <<>>, <<>>, 1)

\* line 108 recurses into current_pool[k]; when that is a scalar and the
\* desired dictionary has a key, current_pool.get raises AttributeError
PoolChangesRaises(new_pool, current_pool) ==
    \E q \in DOMAIN new_pool \cap DOMAIN current_pool :
        /\ new_pool[q] = "dict"
        /\ current_pool[q] \in Scalars
        /\ Children(new_pool, q) # {}

-----------------------------------------------------------------------------
(* The remote API merges a PUT body into the stored tree: every path of the *)
(* body is stored as sent, and what the body replaces by a leaf is dropped. *)

HasPrefixLeaf(new, p) ==
    \E n \in 1..Len(p) :
        /\ SubSeq(p, 1, n) \in DOMAIN new
        /\ new[SubSeq(p, 1, n)] # "dict"

Merge(cur, new) ==
    LET keep == {p \in DOMAIN cur \ DOMAIN new : ~HasPrefixLeaf(new, p)}
    IN  [p \in keep \cup DOMAIN new |-> IF p \in DOMAIN new THEN new[p] ELSE cur[p]]

-----------------------------------------------------------------------------
(* Python values: None or a value; truthiness as 'if x' / 'x or d' read it *)

NoneStr == [some |-> FALSE, val |-> ""]
NoneInt == [some |-> FALSE, val |-> 0]
Some(v) == [some |-> TRUE, val |-> v]

TruthyStr(o) == o.some /\ o.val # ""
TruthyInt(o) == o.some /\ o.val # 0

OrStr(o, d) == IF TruthyStr(o) THEN o.val ELSE d
OrInt(o, d) == IF TruthyInt(o) THEN o.val ELSE d

(* Nodes *)

Addresses == {"x", "y", "z"}
LbStates  == {"active", "draining"}
Weights   == {1, 2}

Node(a, s, w, pr) == [node |-> a, state |-> s, weight |-> w, priority |-> pr]

OptLbStates == {NoneStr} \cup {Some(s) : s \in LbStates}
OptWeights  == {NoneInt} \cup {Some(w) : w \in Weights}

(* Messages: the dict, list or string handed to exit_json / fail_json *)

NoChangeStr == [has |-> FALSE, before |-> "", after |-> ""]
NoChangeInt == [has |-> FALSE, before |-> 0, after |-> 0]
Change(b, a) == [has |-> TRUE, before |-> b, after |-> a]

Text(t) ==
    [form |-> "text", text |-> t, pool |-> FALSE, node |-> FALSE,
     action |-> "", entries |-> <<>>, state |-> NoChangeStr,
     weight |-> NoChangeInt, priority |-> NoChangeInt, error |-> ""]

\* changes = { 'pool': self.pool }
PoolDict == [Text("") EXCEPT !.form = "dict", !.pool = TRUE]

\* changes = { 'node': self.node, 'pool': self.pool }
NodeDict == [PoolDict EXCEPT !.node = TRUE]

\* the list _pool_changes returns
ChangeList(entries) == [Text("") EXCEPT !.form = "list", !.entries = entries]

ErrorBody == "error_body"

(* Representations and requests *)

NoData == [found |-> FALSE, props |-> EmptyTree, nodes |-> <<>>]

NoRequest == [method |-> "NONE", props |-> EmptyTree, setsNodes |-> FALSE,
              nodes |-> <<>>]

PutProps(props) == [NoRequest EXCEPT !.method = "PUT", !.props = props]

Delete == [NoRequest EXCEPT !.method = "DELETE"]

NoResponse == [raised |-> FALSE, status_code |-> 0, decodes |-> FALSE,
               text |-> "", data |-> NoData]

-----------------------------------------------------------------------------
(* The remote resource /api/tm/3.0/config/active/pools/{pool} *)

Representation(r) == [found |-> r.exists, props |-> r.props, nodes |-> r.nodes]

AbsentPool == [exists |-> FALSE, props |-> EmptyTree, nodes |-> <<>>]

\* the stored resource after a write the API accepts
ApiApply(r, req) ==
    IF req.method = "DELETE" THEN AbsentPool
    ELSE [exists |-> TRUE,
          props  |-> IF r.exists THEN Merge(r.props, req.props) ELSE req.props,
          nodes  |-> IF req.setsNodes THEN req.nodes ELSE r.nodes]

\* the status the API answers a write it accepts with
ApiStatus(r, req) ==
    IF req.method = "DELETE" THEN (IF r.exists THEN 204 ELSE 404)
    ELSE (IF r.exists THEN 200 ELSE 201)

GetOutcomes == {"ok", "conn_error", "bad_json"}

WriteOutcomes == {"ok", "refused", "exception"}

ApiGet(r, outcome) ==
    [raised      |-> outcome = "conn_error",
     status_code |-> IF r.exists THEN 200 ELSE 404,
     decodes     |-> outcome # "bad_json",
     text        |-> "",
     data        |-> Representation(r)]

ApiWrite(r, req, outcome) ==
    [raised      |-> outcome = "exception",
     status_code |-> IF outcome = "ok" THEN ApiStatus(r, req) ELSE 500,
     decodes     |-> TRUE,
     text        |-> IF outcome = "ok" THEN "" ELSE ErrorBody,
     data        |-> IF outcome = "ok" THEN Representation(ApiApply(r, req))
                     ELSE NoData]

-----------------------------------------------------------------------------
(* One invocation: the module's parameters, the object's attributes, and    *)
(* what it did (calls, the request it sent, the answer, what it fetched).   *)

Procs == {1, 2}

NoFirst == [valid |-> FALSE, check_mode |-> FALSE, changed |-> FALSE,
            reported |-> FALSE, applied |-> FALSE, fetched |-> NoData]

IdleInv ==
    [pc |-> "Idle", kind |-> "pool", state |-> "present", check_mode |-> FALSE,
     properties |-> EmptyTree, given |-> EmptyTree, node |-> "x",
     desired_lb_state |-> NoneStr, desired_weight |-> NoneInt,
     desired_priority |-> NoneInt,
     exists |-> FALSE, pool_data |-> NoData, changed |-> FALSE,
     msg |-> Text(""), calls |-> <<>>, op |-> "none", req |-> NoRequest,
     resp |-> NoResponse, fetched |-> NoData, get |-> "", got |-> 0,
     first |-> NoFirst]

Terminal(pc) == pc \in {"Reported", "Failed"}

\* module.fail_json(msg=...): the invocation ends Failed
Fail(self, msg) == [self EXCEPT !.pc = "Failed", !.msg = msg]

-----------------------------------------------------------------------------
(* StingrayPool.__init__ lines 87-100 and StingrayNode.__init__ 98-110      *)

PoolInit(self, response) ==
    IF response.raised THEN Fail(self, Text("Unable to connect"))
    ELSE IF ~response.decodes THEN
        Fail([self EXCEPT !.exists = response.status_code # 404],
             Text("decode error"))
    ELSE [self EXCEPT !.exists    = response.status_code # 404,
                      !.pool_data = response.data,
                      !.fetched   = response.data,
                      !.pc        = "Diffing"]

\* mutant: a missing pool is not a failure
NodeInitIgnores404(self, response) ==
    IF response.raised THEN Fail(self, Text("Unable to connect"))
    ELSE IF ~response.decodes THEN Fail(self, Text("decode error"))
    ELSE [self EXCEPT !.pool_data = response.data,
                      !.fetched   = response.data,
                      !.pc        = "Diffing"]

NodeInit(self, response) ==
    IF response.raised THEN Fail(self, Text("Unable to connect"))
    ELSE IF response.status_code = 404 THEN Fail(self, Text("Pool not found"))
    ELSE IF ~response.decodes THEN Fail(self, Text("decode error"))
    ELSE [self EXCEPT !.pool_data = response.data,
                      !.fetched   = response.data,
                      !.pc        = "Diffing"]

-----------------------------------------------------------------------------
(* What set_present / set_absent decide before any write: the changed flag, *)
(* the message, the write request (if one is sent) and its kind.            *)

Plan(self, changed, msg, op, req) ==
    [self EXCEPT !.changed = changed, !.msg = msg, !.op = op, !.req = req]

\* mutant: check mode is not honoured
UnlessNever(check_mode, req) == req

\* 'if self.module.check_mode: return' stands before the write
Unless(check_mode, req) == IF check_mode THEN NoRequest ELSE req

\* an exception inside set_present / set_absent, caught in main
Raise(self, text) == [self EXCEPT !.op = "raised", !.msg = Text(text)]

\* mutant: the pool is destroyed whether it exists or not
PoolPlanAbsentAlways(self) ==
    Plan(self, TRUE, [PoolDict EXCEPT !.action = "destroy_pool"],
         "destroy_pool", Unless(self.check_mode, Delete))

(* StingrayPool.set_absent, lines 117-126 and 136-138 *)
PoolPlanAbsent(self) ==
    IF self.exists
    THEN Plan(self, TRUE, [PoolDict EXCEPT !.action = "destroy_pool"],
              "destroy_pool", Unless(self.check_mode, Delete))
    ELSE Plan(self, FALSE, PoolDict, "none", NoRequest)

(* StingrayPool.set_present, lines 140-154 and 168-179 *)
PoolPlanPresent(self) ==
    IF ~self.exists
    THEN Plan(self, TRUE, [PoolDict EXCEPT !.action = "create_pool"],
              "create_pool",
              Unless(self.check_mode,
                     \* for an empty dict {'basic': {}} is sent: an empty
                     \* section, which stores the same tree
                     PutProps(self.properties)))
    ELSE IF PoolChangesRaises(self.properties, self.pool_data.props)
    THEN Raise(self, "AttributeError")
    ELSE LET changes == PoolChanges(self.properties, self.pool_data.props)
         IN  IF Len(changes) > 0
             THEN Plan(self, TRUE, ChangeList(changes), "update_pool",
                       Unless(self.check_mode, PutProps(self.properties)))
             ELSE Plan(self, FALSE, ChangeList(changes), "none", NoRequest)

(* StingrayPool.set_absent lines 128-135, set_present 156-167 and 181-192: *)
(* the answer to the write                                                 *)
PoolFinish(self, response) ==
    IF self.op = "raised" THEN Fail(self, self.msg)
    ELSE IF self.req.method = "NONE" THEN [self EXCEPT !.pc = "Reported"]
    ELSE IF response.raised THEN Fail(self, Text("exception"))
    ELSE IF self.op = "create_pool" THEN
        IF response.status_code = 201
        THEN [self EXCEPT !.pool_data = response.data, !.pc = "Reported"]
        ELSE Fail(self, [self.msg EXCEPT !.error = response.text])
    ELSE IF self.op = "update_pool" THEN
        IF response.status_code = 200
        THEN [self EXCEPT !.pool_data = response.data, !.pc = "Reported"]
        ELSE Fail(self, self.msg)
    ELSE
        IF response.status_code # 204
        THEN Fail(self, [self.msg EXCEPT !.error = response.text])
        ELSE [self EXCEPT !.pc = "Reported"]

-----------------------------------------------------------------------------
(* StingrayNode *)

\* _nodes
Nodes(self) == self.pool_data.nodes

\* _get_current_node
GetCurrentNode(self) == SelectSeq(Nodes(self), LAMBDA n : n.node = self.node)

\* _node_exists
NodeExists(self) == GetCurrentNode(self) # <<>>

\* set_nodes, lines 125-135
PutNodes(nodes) ==
    [NoRequest EXCEPT !.method = "PUT", !.setsNodes = TRUE, !.nodes = nodes]

\* mutant: the filter keeps what it should drop
OtherNodesInverted(nodes, node) == SelectSeq(nodes, LAMBDA n : n.node = node)

\* [n for n in self._nodes() if n['node'] != self.node]
OtherNodes(nodes, node) == SelectSeq(nodes, LAMBDA n : n.node # node)

(* set_absent, lines 137-153 and 160-162 *)
NodePlanAbsent(self) ==
    IF NodeExists(self)
    THEN Plan(self, TRUE, [NodeDict EXCEPT !.action = "remove_node"],
              "remove_node",
              Unless(self.check_mode,
                     PutNodes(OtherNodes(Nodes(self), self.node))))
    ELSE Plan(self, FALSE, NodeDict, "none", NoRequest)

\* lines 179-185
NewNode(self) ==
    Node(self.node, OrStr(self.desired_lb_state, "active"),
         OrInt(self.desired_weight, 1), OrInt(self.desired_priority, 1))

\* lines 196, 201, 206: a field is compared when the desired value is truthy
DiffersStr(desired, current) == TruthyStr(desired) /\ desired.val # current
DiffersInt(desired, current) == TruthyInt(desired) /\ desired.val # current

\* mutant: the weight is reported as changed but not assigned
MutatedNodeKeepsWeight(self, current_node) ==
    [current_node EXCEPT
        !.state    = IF DiffersStr(self.desired_lb_state, @)
                     THEN self.desired_lb_state.val ELSE @,
        !.priority = IF DiffersInt(self.desired_priority, @)
                     THEN self.desired_priority.val ELSE @]

\* lines 194-209: current_node after the three assignments
MutatedNode(self, current_node) ==
    [current_node EXCEPT
        !.state    = IF DiffersStr(self.desired_lb_state, @)
                     THEN self.desired_lb_state.val ELSE @,
        !.weight   = IF DiffersInt(self.desired_weight, @)
                     THEN self.desired_weight.val ELSE @,
        !.priority = IF DiffersInt(self.desired_priority, @)
                     THEN self.desired_priority.val ELSE @]

\* lines 196-209: the entries of changes
NodeChanges(self, current_node) ==
    [NodeDict EXCEPT
        !.state    = IF DiffersStr(self.desired_lb_state, current_node.state)
                     THEN Change(current_node.state, self.desired_lb_state.val)
                     ELSE @,
        !.weight   = IF DiffersInt(self.desired_weight, current_node.weight)
                     THEN Change(current_node.weight, self.desired_weight.val)
                     ELSE @,
        !.priority = IF DiffersInt(self.desired_priority, current_node.priority)
                     THEN Change(current_node.priority, self.desired_priority.val)
                     ELSE @]

\* current_node is the first matching entry of the table itself, so the
\* assignments of lines 198, 203, 208 change self.pool_data in place
InPlace(nodes, node, mutated) ==
    LET i == CHOOSE j \in 1..Len(nodes) :
                /\ nodes[j].node = node
                /\ \A h \in 1..(j - 1) : nodes[h].node # node
    IN  [nodes EXCEPT ![i] = mutated]

\* mutant: the node stays where it was
RelocatedInPlace(nodes, node, current_node) == nodes

\* mutant: the old entry is not filtered out
RelocatedKeepsOld(nodes, node, current_node) == nodes \o <<current_node>>

\* lines 216-217
Relocated(nodes, node, current_node) ==
    OtherNodes(nodes, node) \o <<current_node>>

(* set_present, lines 164-186 and 193-217, 226-227 *)
NodePlanPresent(self) ==
    IF ~NodeExists(self)
    THEN Plan(self, TRUE, [NodeDict EXCEPT !.action = "add_node"], "add_node",
              Unless(self.check_mode,
                     PutNodes(Nodes(self) \o <<NewNode(self)>>)))
    ELSE LET before       == GetCurrentNode(self)[1]
             current_node == MutatedNode(self, before)
             changes      == NodeChanges(self, before)
             mutated      == [self EXCEPT !.pool_data.nodes =
                                  InPlace(@, self.node, current_node)]
         IN  IF changes.state.has \/ changes.weight.has \/ changes.priority.has
             THEN Plan(mutated, TRUE, changes, "mutate_node",
                       Unless(self.check_mode,
                              PutNodes(Relocated(Nodes(mutated), self.node,
                                                 current_node))))
             ELSE Plan(mutated, FALSE, changes, "none", NoRequest)

(* lines 153-159, 186-192, 219-225: the answer to the write.  In          *)
(* "HTTP {2}".format(response.status_code) the index 2 has no argument:   *)
(* IndexError, which main (line 276) reports as the failure message.      *)
NodeFinish(self, response) ==
    IF self.req.method = "NONE" THEN [self EXCEPT !.pc = "Reported"]
    ELSE IF response.raised THEN Fail(self, Text("exception"))
    ELSE IF response.status_code = 200
         THEN [self EXCEPT !.pool_data = response.data, !.pc = "Reported"]
    ELSE Fail(self, Text("tuple index out of range"))

-----------------------------------------------------------------------------
(* Initial states: the pool is absent, or holds one of these trees and      *)
(* node tables (a table has one entry per address).                         *)

\* the tree with the given leaves; the dictionaries above them are implied
MkTree(leaves) ==
    LET D == {p \in Paths : \E q \in DOMAIN leaves :
                    Len(p) <= Len(q) /\ SubSeq(q, 1, Len(p)) = p}
    IN  [p \in D |-> IF p \in DOMAIN leaves THEN leaves[p] ELSE "dict"]

InitialTrees ==
    { MkTree(<<"a", "b", "c">> :> "v1" @@ <<"b">> :> "v1"),
      MkTree(<<"a", "b">> :> "v1" @@ <<"b">> :> "v2"),
      MkTree(<<"a">> :> "v1"),
      MkTree(<<"a", "b", "c">> :> "null" @@ <<"b">> :> "v1") }

InitialTables ==
    { <<>>,
      <<Node("x", "active", 1, 1), Node("y", "active", 1, 1),
        Node("z", "draining", 2, 1)>>,
      <<Node("y", "draining", 2, 2), Node("x", "active", 1, 1)>> }

NodeRemotes ==
    {[exists |-> TRUE, props |-> EmptyTree, nodes |-> n] : n \in InitialTables}

InitialRemotes ==
    {AbsentPool}
      \cup {[exists |-> TRUE, props |-> t, nodes |-> <<>>] : t \in InitialTrees}
      \cup NodeRemotes

Init ==
    /\ remote \in InitialRemotes
    /\ inv = [p \in Procs |-> IdleInv]
    /\ runs = 0

-----------------------------------------------------------------------------
(* Actions *)

CanStart(p) ==
    /\ inv[p].pc = "Idle"
    /\ runs < MaxRuns

(* stingray_pool.py main, lines 195-222: the parameters, then __init__ up  *)
(* to the GET                                                              *)
StartPool(p, state, check_mode, properties) ==
    /\ CanStart(p)
    /\ inv' = [inv EXCEPT ![p] =
                 [IdleInv EXCEPT !.pc = "Fetching", !.kind = "pool",
                                 !.state = state, !.check_mode = check_mode,
                                 !.given = properties,
                                 !.properties = NonEmptyProps(properties)]]
    /\ runs' = runs + 1
    /\ UNCHANGED remote

(* stingray_node.py main, lines 230-264 *)
StartNode(p, state, check_mode, node, lb_state, weight, priority) ==
    /\ CanStart(p)
    /\ inv' = [inv EXCEPT ![p] =
                 [IdleInv EXCEPT !.pc = "Fetching", !.kind = "node",
                                 !.state = state, !.check_mode = check_mode,
                                 !.node = node,
                                 !.desired_lb_state = lb_state,
                                 !.desired_weight = weight,
                                 !.desired_priority = priority]]
    /\ runs' = runs + 1
    /\ UNCHANGED remote

(* the same task run again: the same desired state, check mode as chosen   *)
Rerun(p, check_mode) ==
    /\ Terminal(inv[p].pc)
    /\ runs < MaxRuns
    /\ LET old == inv[p]
       IN  inv' = [inv EXCEPT ![p] =
                 [IdleInv EXCEPT
                    !.pc = "Fetching", !.kind = old.kind, !.state = old.state,
                    !.check_mode = check_mode, !.given = old.given,
                    !.properties = old.properties, !.node = old.node,
                    !.desired_lb_state = old.desired_lb_state,
                    !.desired_weight = old.desired_weight,
                    !.desired_priority = old.desired_priority,
                    !.first = [valid      |-> TRUE,
                               check_mode |-> old.check_mode,
                               changed    |-> old.changed,
                               reported   |-> old.pc = "Reported",
                               applied    |-> /\ old.pc = "Reported"
                                              /\ old.req.method # "NONE",
                               fetched    |-> old.fetched]]]
    /\ runs' = runs + 1
    /\ UNCHANGED remote

(* the GET of __init__ and what __init__ makes of the answer *)
Fetch(p) ==
    /\ inv[p].pc = "Fetching"
    /\ \E outcome \in GetOutcomes :
        LET response == ApiGet(remote, outcome)
            self     == [inv[p] EXCEPT
                            !.calls = Append(@, "GET"),
                            !.get   = outcome,
                            !.got   = IF response.raised THEN 0
                                      ELSE response.status_code]
        IN  inv' = [inv EXCEPT ![p] =
                      IF self.kind = "pool" THEN PoolInit(self, response)
                      ELSE NodeInit(self, response)]
    /\ UNCHANGED <<remote, runs>>

\* the write outcomes that tell apart: none when no write is sent
OutcomesOf(planned) ==
    IF planned.req.method = "NONE" THEN {"ok"} ELSE WriteOutcomes

\* resp keeps the answer's status and text; its body goes to pool_data
Sent(planned, response) ==
    [planned EXCEPT !.resp  = [response EXCEPT !.data = NoData],
                    !.calls = IF planned.req.method = "NONE" THEN @
                              ELSE Append(@, planned.req.method)]

Answer(planned, outcome) ==
    IF planned.req.method = "NONE" THEN NoResponse
    ELSE ApiWrite(remote, planned.req, outcome)

Stored(planned, outcome) ==
    IF planned.req.method # "NONE" /\ outcome = "ok"
    THEN ApiApply(remote, planned.req) ELSE remote

(* stingray_pool.py main, lines 224-235 *)
PoolReconcile(p) ==
    /\ inv[p].pc = "Diffing"
    /\ inv[p].kind = "pool"
    /\ LET planned == IF inv[p].state = "present"
                      THEN PoolPlanPresent(inv[p]) ELSE PoolPlanAbsent(inv[p])
       IN  \E outcome \in OutcomesOf(planned) :
             /\ inv' = [inv EXCEPT ![p] =
                          PoolFinish(Sent(planned, Answer(planned, outcome)),
                                     Answer(planned, outcome))]
             /\ remote' = Stored(planned, outcome)
    /\ UNCHANGED runs

(* stingray_node.py main, lines 266-277 *)
NodeReconcile(p) ==
    /\ inv[p].pc = "Diffing"
    /\ inv[p].kind = "node"
    /\ LET planned == IF inv[p].state = "present"
                      THEN NodePlanPresent(inv[p]) ELSE NodePlanAbsent(inv[p])
       IN  \E outcome \in OutcomesOf(planned) :
             /\ inv' = [inv EXCEPT ![p] =
                          NodeFinish(Sent(planned, Answer(planned, outcome)),
                                     Answer(planned, outcome))]
             /\ remote' = Stored(planned, outcome)
    /\ UNCHANGED runs

(* the process exits: nothing of an invocation outlives it *)
Exit(p) ==
    /\ Terminal(inv[p].pc)
    /\ inv' = [inv EXCEPT ![p] = IdleInv]
    /\ UNCHANGED <<remote, runs>>

States == {"present", "absent"}

(* One task, and the same task run again *)
Next ==
    \/ \E state \in States, check_mode \in BOOLEAN, properties \in Trees :
          StartPool(1, state, check_mode, properties)
    \/ \E state \in States, check_mode \in BOOLEAN, node \in Addresses,
          lb_state \in OptLbStates, weight \in OptWeights,
          priority \in OptWeights :
          StartNode(1, state, check_mode, node, lb_state, weight, priority)
    \/ \E check_mode \in BOOLEAN : Rerun(1, check_mode)
    \/ Fetch(1)
    \/ PoolReconcile(1)
    \/ NodeReconcile(1)

Spec == Init /\ [][Next]_vars

(* Node tasks one after the other, each with its own parameters; a task  *)
(* leaves the priority alone or asks for 2 (the tables hold 1 and 2)     *)
InitNode ==
    /\ remote \in NodeRemotes
    /\ inv = [p \in Procs |-> IdleInv]
    /\ runs = 0

NextNode ==
    \/ \E state \in States, check_mode \in BOOLEAN, node \in Addresses,
          lb_state \in OptLbStates, weight \in OptWeights,
          priority \in {NoneInt, Some(2)} :
          StartNode(1, state, check_mode, node, lb_state, weight, priority)
    \/ Fetch(1)
    \/ NodeReconcile(1)
    \/ Exit(1)

SpecNode == InitNode /\ [][NextNode]_vars

(* Two node tasks against the same pool at the same time: each is one     *)
(* process, and the API serves their calls in any order                   *)
NextConc ==
    \/ \E p \in Procs, state \in States, node \in Addresses,
          lb_state \in {NoneStr, Some("draining")},
          weight \in {NoneInt, Some(2)} :
          StartNode(p, state, FALSE, node, lb_state, weight, NoneInt)
    \/ \E p \in Procs : Fetch(p)
    \/ \E p \in Procs : NodeReconcile(p)

SpecConc == InitNode /\ [][NextConc]_vars

-----------------------------------------------------------------------------
(* Properties.  inv[1] is the invocation of Spec and SpecNode.              *)

Run == inv[1]

\* the entries of a table whose address is not a, in the table's order
EntriesExcept(nodes, a) == SelectSeq(nodes, LAMBDA n : n.node # a)

AddressesOf(nodes) == {nodes[i].node : i \in DOMAIN nodes}

\* a pool task with state=present that found the pool and diffed it
DiffedPool ==
    /\ Run.kind = "pool"
    /\ Run.state = "present"
    /\ Terminal(Run.pc)
    /\ Run.get = "ok"
    /\ Run.exists
    /\ Run.op # "raised"

\* the desired tree without the keys mapped to null
Pruned(t) == [p \in {q \in DOMAIN t : t[q] # "null"} |-> t[p]]

(* C1: on an existing pool with state=present, a key of the desired tree   *)
(* whose value is null, at any depth, yields no change entry, does not by  *)
(* itself set changed, and is not in the body of the PUT.                  *)
NullMeansUnset ==
    DiffedPool =>
        /\ \A i \in DOMAIN Run.msg.entries : Run.msg.entries[i].after # "null"
        /\ Run.changed => PoolChanges(Pruned(Run.given), Run.fetched.props) # <<>>
        /\ Run.req.method = "PUT" =>
              \A p \in DOMAIN Run.req.props : Run.req.props[p] # "null"

\* the desired and the current tree have the same keys and differ at the
\* one leaf q, a scalar on both sides
DifferOnlyAt(q) ==
    /\ DOMAIN Run.given = DOMAIN Run.fetched.props
    /\ q \in DOMAIN Run.given
    /\ Run.given[q] \in Scalars
    /\ Run.fetched.props[q] \in Scalars
    /\ \A p \in DOMAIN Run.given : (Run.given[p] # Run.fetched.props[p]) <=> p = q

(* C2: when the desired and the current tree differ at exactly one leaf,   *)
(* at any depth, the diff is one entry whose key is the full dotted path   *)
(* of the leaf, with the current value before and the desired one after.   *)
DiffFieldPath ==
    \A q \in Paths :
        DiffedPool /\ Run.pc = "Reported" /\ DifferOnlyAt(q) =>
            Run.msg.entries = <<[key    |-> q,
                                 before |-> Run.fetched.props[q],
                                 after  |-> Run.given[q]]>>

\* the status each kind of write must be answered with
Expected(op) ==
    IF op = "create_pool" THEN 201
    ELSE IF op = "destroy_pool" THEN 204
    ELSE 200

UnexpectedStatus(self) ==
    /\ self.req.method # "NONE"
    /\ ~self.resp.raised
    /\ self.resp.status_code # Expected(self.op)

\* the message is the Change Record: the identity with the action tag, or
\* the field change entries
CarriesRecord(self) ==
    \/ /\ self.msg.form = "dict"
       /\ self.msg.pool
       /\ self.kind = "node" => self.msg.node
       /\ self.op # "mutate_node" => self.msg.action = self.op
       /\ self.op = "mutate_node" =>
             self.msg.state.has \/ self.msg.weight.has \/ self.msg.priority.has
    \/ /\ self.msg.form = "list"
       /\ self.msg.entries # <<>>

(* C3: a write answered with another status than the expected one ends the *)
(* invocation Failed, and the failure message carries the Change Record    *)
(* and the raw error body of the response.                                 *)
UnexpectedStatusFails ==
    UnexpectedStatus(Run) =>
        /\ Run.pc = "Failed"
        /\ CarriesRecord(Run)
        /\ Run.msg.error = Run.resp.text

\* the run before this one, with the same desired state, wrote and succeeded
AfterAppliedRun ==
    /\ Run.first.valid
    /\ ~Run.first.check_mode
    /\ Run.first.reported
    /\ Run.first.changed
    /\ Run.first.applied

(* C4: after a reconciliation that reported changed=true and whose write   *)
(* the API accepted and stored, the same desired state reconciled again    *)
(* reports changed=false and sends no write.                               *)
Idempotent ==
    AfterAppliedRun /\ Terminal(Run.pc) /\ Run.get = "ok" =>
        /\ Run.pc = "Reported"
        /\ ~Run.changed
        /\ Run.req.method = "NONE"
        /\ Run.calls = <<"GET">>

IdempotentWitness ==
    /\ AfterAppliedRun
    /\ Run.pc = "Reported"
    /\ Run.kind = "pool"
    /\ Run.state = "present"
    /\ Run.first.fetched.found
    /\ Run.first.fetched.props # Run.fetched.props

\* the run before this one was a dry run of the same desired state that
\* fetched what this run fetched
AfterDryRun ==
    /\ Run.first.valid
    /\ Run.first.check_mode
    /\ Run.first.reported
    /\ Run.first.fetched = Run.fetched

(* C5: in check mode no PUT or DELETE is sent and the remote resource is   *)
(* as it was fetched, and the changed flag is the one the same task        *)
(* reports on the same fetched state without check mode, true whenever it  *)
(* then sends a write.                                                     *)
DryRunNonMutation ==
    /\ Run.check_mode /\ Run.pc # "Idle" =>
          /\ Run.req.method = "NONE"
          /\ Run.calls \in {<<>>, <<"GET">>}
          /\ Run.get = "ok" => Representation(remote) = Run.fetched
    /\ AfterDryRun /\ ~Run.check_mode /\ Run.pc = "Reported" =>
          /\ Run.changed = Run.first.changed
          /\ Run.req.method # "NONE" => Run.first.changed

DryRunWitness ==
    /\ AfterDryRun
    /\ ~Run.check_mode
    /\ Run.pc = "Reported"
    /\ Run.req.method = "PUT"
    /\ Run.first.changed

\* state=absent, and the fetch found the pool, or the node, absent
AbsentAlready ==
    /\ Run.state = "absent"
    /\ Run.get = "ok"
    /\ \/ Run.kind = "pool" /\ Run.got = 404
       \/ /\ Run.kind = "node"
          /\ Run.got = 200
          /\ Run.node \notin AddressesOf(Run.fetched.nodes)

(* C6: state=absent on a pool the fetch did not find, or on a node whose   *)
(* address is not in the fetched table, reports changed=false with no      *)
(* action tag and sends no write.                                          *)
AbsenceOfAbsence ==
    AbsentAlready /\ Terminal(Run.pc) =>
        /\ Run.pc = "Reported"
        /\ ~Run.changed
        /\ Run.msg.action = ""
        /\ Run.req.method = "NONE"
        /\ Run.calls = <<"GET">>

AbsenceWitness ==
    /\ AbsentAlready
    /\ Run.pc = "Reported"
    /\ Run.kind = "node"
    /\ ~Run.check_mode
    /\ Run.fetched.nodes # <<>>

\* the entry of the fetched table for the task's address
Old == CHOOSE n \in {Run.fetched.nodes[i] : i \in DOMAIN Run.fetched.nodes} :
            n.node = Run.node

\* the entry with the supplied fields as desired, the others as they were
Wanted(old) ==
    [node     |-> Run.node,
     state    |-> IF Run.desired_lb_state.some
                  THEN Run.desired_lb_state.val ELSE old.state,
     weight   |-> IF Run.desired_weight.some
                  THEN Run.desired_weight.val ELSE old.weight,
     priority |-> IF Run.desired_priority.some
                  THEN Run.desired_priority.val ELSE old.priority]

\* state=present on a node of the fetched table, a supplied field differs
MustMutate ==
    /\ Run.kind = "node"
    /\ Run.state = "present"
    /\ Run.get = "ok"
    /\ Run.got = 200
    /\ Terminal(Run.pc)
    /\ Run.node \in AddressesOf(Run.fetched.nodes)
    /\ Wanted(Old) # Old

(* C7: a state=present task that changes a field of node X writes the      *)
(* other entries unmodified in their order, then one entry for X, last,    *)
(* with the supplied fields as desired and the others as they were; a      *)
(* state=absent task for X writes the other entries unmodified in order.   *)
NodeRewrite ==
    /\ MustMutate => Run.changed /\ Run.op = "mutate_node"
    /\ MustMutate /\ ~Run.check_mode =>
          /\ Run.req.method = "PUT"
          /\ Run.req.setsNodes
          /\ Run.req.nodes =
                EntriesExcept(Run.fetched.nodes, Run.node) \o <<Wanted(Old)>>
    /\ Run.op = "mutate_node" => MustMutate
    /\ Run.op = "remove_node" /\ Run.req.method = "PUT" =>
          /\ Run.req.setsNodes
          /\ Run.req.nodes = EntriesExcept(Run.fetched.nodes, Run.node)
    /\ Run.kind = "node" /\ Run.pc = "Reported" /\ Run.req.method = "PUT" =>
          remote.nodes = Run.req.nodes

NodeRewriteWitness ==
    /\ MustMutate
    /\ Run.pc = "Reported"
    /\ Run.req.method = "PUT"
    /\ Len(Run.fetched.nodes) = 3
    /\ Run.fetched.nodes[1].node = Run.node
    /\ ~Run.desired_weight.some
    /\ Run.desired_lb_state.some

\* the fetch failed: no connection, an undecodable body, or, for a node
\* task, no such pool
FetchFailed(self) ==
    \/ self.get \in {"conn_error", "bad_json"}
    \/ self.kind = "node" /\ self.get = "ok" /\ self.got = 404

(* C8: an invocation sends one GET, first, and then at most one write;     *)
(* after a failed fetch or an unexpected write status it sends nothing     *)
(* more and is Failed; an invocation under way can always take its next    *)
(* step, and ends Reported or Failed.                                      *)
CallSequence ==
    /\ Run.calls \in {<<>>, <<"GET">>, <<"GET", "PUT">>, <<"GET", "DELETE">>}
    /\ Run.pc \in {"Idle", "Fetching", "Diffing", "Reported", "Failed"}
    /\ Run.pc \in {"Idle", "Fetching"} <=> Run.calls = <<>>
    /\ Run.pc = "Diffing" => Run.calls = <<"GET">>
    /\ FetchFailed(Run) => Run.pc = "Failed" /\ Run.calls = <<"GET">>
    /\ UnexpectedStatus(Run) => Run.pc = "Failed" /\ Len(Run.calls) = 2
    /\ Run.req.method # "NONE" <=> Len(Run.calls) = 2
    /\ Run.pc \in {"Fetching", "Diffing"} =>
          ENABLED (Fetch(1) \/ PoolReconcile(1) \/ NodeReconcile(1))

CallSequenceWitness ==
    /\ Run.kind = "node"
    /\ Run.get = "ok"
    /\ Run.got = 404
    /\ Run.pc = "Failed"
    /\ Run.calls = <<"GET">>

\* the invocation wrote a node table and the API accepted it
Wrote(self) ==
    /\ self.kind = "node"
    /\ self.pc = "Reported"
    /\ self.req.method = "PUT"
    /\ self.resp.status_code = 200

(* C9: a node task writes the table of its own fetch, whatever was written *)
(* since: the entries of the other addresses are the fetched ones, and the *)
(* table the API holds is the one written last.  With two tasks that both  *)
(* fetch before either writes, the first one's change is lost.             *)
WholeTableWrite ==
    /\ \A p \in Procs :
          Wrote(inv[p]) =>
              EntriesExcept(inv[p].req.nodes, inv[p].node)
                  = EntriesExcept(inv[p].fetched.nodes, inv[p].node)
    /\ (\E p \in Procs : Wrote(inv[p])) =>
          \E p \in Procs : Wrote(inv[p]) /\ remote.nodes = inv[p].req.nodes

LostUpdate ==
    /\ Wrote(inv[1]) /\ inv[1].changed
    /\ Wrote(inv[2]) /\ inv[2].changed
    /\ inv[1].node # inv[2].node
    /\ inv[1].op = "add_node"
    /\ inv[1].node \notin AddressesOf(remote.nodes)
    /\ inv[1].node \in AddressesOf(inv[1].pool_data.nodes)

OnePerAddress(nodes) ==
    \A i, j \in DOMAIN nodes : i # j => nodes[i].node # nodes[j].node

(* C10: the node table keeps at most one entry per address through any     *)
(* sequence of node tasks, and a node is added only when its address is    *)
(* not in the fetched table.                                               *)
UniqueAddresses ==
    /\ OnePerAddress(remote.nodes)
    /\ OnePerAddress(Run.req.nodes)
    /\ Run.op = "add_node" => Run.node \notin AddressesOf(Run.fetched.nodes)

UniqueAddressesWitness ==
    /\ runs = 2
    /\ Run.pc = "Reported"
    /\ Run.op = "mutate_node"
    /\ Run.req.method = "PUT"
    /\ Run.fetched.nodes \notin InitialTables
    /\ Len(remote.nodes) = 3

====
